---- MODULE Spec2Model ----
(***************************************************************************)
(* Model of the version store of the temporal style tracker:               *)
(* TemporalTracker (temporal_tracker.py) and the delete handler of the     *)
(* Flask backend (app.py).                                                 *)
(*                                                                         *)
(* Representation                                                          *)
(*   - a number is a reduced fraction <<num, den>> (Python int and float   *)
(*     values that compare equal are the same fraction);                   *)
(*   - a text is a sequence of one-character strings;                      *)
(*   - a datetime is [sec, us] (naive, whole seconds and microseconds);    *)
(*     its ISO-8601 string is the tuple of its printed parts;              *)
(*   - a Python dict is the sequence of its items in insertion order;      *)
(*   - the f-string "{document_id}_v{n}" is the record [doc, seq].         *)
(***************************************************************************)
EXTENDS Integers, Sequences, FiniteSets, TLC

VARIABLES
    documents,  \* TemporalTracker.documents: items [id, versions], insertion order
    disk,       \* the file storage_path/history.json
    lastOp,     \* the operation that completed last, and what it returned
    calls,      \* per document id: add_version calls since the id was (re)created
    threads,    \* per request thread: where it is in its handler, its locals
    inSort      \* ids whose list object is inside list.sort (allocated == -1)

vars == <<documents, disk, lastOp, calls, threads, inSort>>

---------------------------------------------------------------------------
(* Bounds of the model                                                     *)

\* add_version is enabled while the store holds fewer snapshots than this
MaxVersions == 3
\* add_version calls begun by the request threads of SpecConc
MaxCalls == 2
\* the same as MaxVersions, for the thread that may be killed (SpecCrash)
MaxCrashVersions == 2

ThreadIds == {"t1", "t2"}

DocIds == {"d1", "d2"}

\* datetimes T1 < T2 < T3; only T2 has a microsecond part
datetime(sec, us) == [sec |-> sec, us |-> us]
T1 == datetime(1, 0)
T2 == datetime(1, 5)
T3 == datetime(2, 0)
Timestamps == {T1, T2, T3}

---------------------------------------------------------------------------
(* Numbers                                                                 *)

RECURSIVE GCD(_, _)
GCD(a, b) == IF b = 0 THEN a ELSE GCD(b, a % b)

\* the value n / d, d > 0
Frac(n, d) == LET g == GCD(n, d) IN <<n \div g, d \div g>>

Zero == Frac(0, 1)
One == Frac(1, 1)

FracLE(x, y) == x[1] * y[2] <= y[1] * x[2]

---------------------------------------------------------------------------
(* Texts and the style features (_extract_style_features)                  *)

UpperChars == {"H"}
LowerChars == {"h", "i"}
SpaceChars == {" "}
Terminators == {".", "!", "?"}
\* the class [,.!?;:-]
PunctChars == {",", ".", "!", "?", ";", ":", "-"}
\* \w : letters, digits, underscore
WordChars == UpperChars \cup LowerChars \cup {"1", "_"}
Chars == WordChars \cup SpaceChars \cup PunctChars

\* str.lower() of one character
LowerChar(c) == IF c = "H" THEN "h" ELSE c

lower(text) == [i \in 1..Len(text) |-> LowerChar(text[i])]

\* the pieces of text between the characters of seps (empty pieces included)
RECURSIVE SplitFrom(_, _, _, _)
SplitFrom(text, seps, i, cur) ==
    IF i > Len(text) THEN <<cur>>
    ELSE IF text[i] \in seps
         THEN <<cur>> \o SplitFrom(text, seps, i + 1, <<>>)
         ELSE SplitFrom(text, seps, i + 1, Append(cur, text[i]))

\* re.findall(r'\b\w+\b', text.lower()): the maximal runs of word characters
findall_words(text) ==
    SelectSeq(SplitFrom(lower(text), Chars \ WordChars, 1, <<>>),
              LAMBDA w : Len(w) > 0)

\* re.split(r'[.!?]+', text), each piece stripped, the empty ones dropped:
\* what is kept is counted, and strip() empties exactly the all-blank pieces
split_sentences(text) ==
    SelectSeq(SplitFrom(text, Terminators, 1, <<>>),
              LAMBDA s : \E i \in 1..Len(s) : s[i] \notin SpaceChars)

RECURSIVE SumLen(_)
SumLen(ws) == IF ws = <<>> THEN 0 ELSE Len(Head(ws)) + SumLen(Tail(ws))

CountIn(text, cls) == Cardinality({i \in 1..Len(text) : text[i] \in cls})

\* slip: x / y if y > 0 else 1
Ratio_else_one(x, y) == IF y > 0 THEN Frac(x, y) ELSE One

\* x / y if y > 0 else 0
Ratio(x, y) == IF y > 0 THEN Frac(x, y) ELSE Zero

_extract_style_features(text) ==
    LET words == findall_words(text)
        sentences == split_sentences(text)
        word_count == Len(words)
        sentence_count == Len(sentences)
        char_count == Len(text)
    IN  [avg_sentence_length |-> Ratio(word_count, sentence_count),
         avg_word_length |-> Ratio(SumLen(words), word_count),
         lexical_diversity |->
             Ratio(Cardinality({words[i] : i \in 1..Len(words)}), word_count),
         punctuation_ratio |-> Ratio(CountIn(text, PunctChars), char_count),
         caps_ratio |-> Ratio(CountIn(text, UpperChars), char_count),
         word_count |-> Frac(word_count, 1),
         sentence_count |-> Frac(sentence_count, 1)]

---------------------------------------------------------------------------
(* The authenticity score (_analyze_authenticity)                          *)

\* What the module-level client does when asked:
\*   unavailable : client is None (the import failed)
\*   error       : chat.completions.create raised
\*   no_number   : the reply holds no match of [\d.]+
\*   bad_number  : the first match is not a float literal ("1.2.3", ".")
\*   number      : the first match parses to value
Outcome(kind, value) == [kind |-> kind, value |-> value]

FallbackScore == Frac(7, 10)
DefaultScore == Frac(1, 2)

\* slip: the parsed number is returned as it is
Clamp_unbounded(score) == score

\* max(0.0, min(1.0, score)); the match has no sign, so score >= 0
Clamp(score) == IF FracLE(One, score) THEN One ELSE score

_analyze_authenticity(text, outcome) ==
    IF outcome.kind = "unavailable" THEN FallbackScore
    ELSE IF outcome.kind = "number" THEN Clamp(outcome.value)
    ELSE DefaultScore

---------------------------------------------------------------------------
(* Snapshots and the documents mapping                                     *)

VersionSnapshot(version_id, timestamp, text, score, features, metadata) ==
    [version_id |-> version_id,
     timestamp |-> timestamp,
     text |-> text,
     authenticity_score |-> score,
     style_features |-> features,
     metadata |-> metadata]

\* the index of document_id among the items of docs, 0 when it is no key
IndexOf(docs, document_id) ==
    IF \E i \in 1..Len(docs) : docs[i].id = document_id
    THEN CHOOSE i \in 1..Len(docs) : docs[i].id = document_id
    ELSE 0

\* document_id in docs
contains(docs, document_id) == IndexOf(docs, document_id) # 0

\* docs.get(document_id, [])
get(docs, document_id) ==
    IF contains(docs, document_id)
    THEN docs[IndexOf(docs, document_id)].versions
    ELSE <<>>

\* docs[document_id] = versions: a new key goes last, an old one keeps its place
setitem(docs, document_id, versions) ==
    IF contains(docs, document_id)
    THEN [docs EXCEPT ![IndexOf(docs, document_id)].versions = versions]
    ELSE Append(docs, [id |-> document_id, versions |-> versions])

\* the mapping after a read of docs[document_id]: the defaultdict(list)
\* inserts a missing key with an empty list
getitem(docs, document_id) ==
    IF contains(docs, document_id) THEN docs
    ELSE setitem(docs, document_id, <<>>)

\* slip: the read is docs[document_id], which inserts a missing key
after_get_by_subscript(docs, document_id) == getitem(docs, document_id)

\* the mapping after docs.get(document_id, []): get never inserts a key
after_get(docs, document_id) == docs

\* slip: docs[document_id].clear() -- the key stays
delitem_clearing(docs, document_id) ==
    [i \in 1..Len(docs) |->
        IF docs[i].id = document_id
        THEN [id |-> document_id, versions |-> <<>>] ELSE docs[i]]

\* del docs[document_id]
delitem(docs, document_id) ==
    SelectSeq(docs, LAMBDA e : e.id # document_id)

keys(docs) == {docs[i].id : i \in 1..Len(docs)}

\* datetime comparison a <= b
TsLE(a, b) == a.sec < b.sec \/ (a.sec = b.sec /\ a.us <= b.us)

\* v goes behind every element whose timestamp is not later than its own
InsertByTimestamp(sorted, v) ==
    LET n == Cardinality({i \in 1..Len(sorted) :
                            TsLE(sorted[i].timestamp, v.timestamp)})
    IN  SubSeq(sorted, 1, n) \o <<v>> \o SubSeq(sorted, n + 1, Len(sorted))

\* list.sort(key=lambda v: v.timestamp): stable, ascending
RECURSIVE SortFrom(_, _, _)
SortFrom(versions, i, sorted) ==
    IF i > Len(versions) THEN sorted
    ELSE SortFrom(versions, i + 1, InsertByTimestamp(sorted, versions[i]))

sort_by_timestamp(versions) == SortFrom(versions, 1, <<>>)

\* slip: counts the documents of the store, not the versions of the document
new_version_id_counting_documents(docs, document_id) ==
    [doc |-> document_id, seq |-> Len(docs) + 1]

\* slip: the + 1 is missing
new_version_id_from_zero(docs, document_id) ==
    [doc |-> document_id, seq |-> Len(get(docs, document_id))]

\* f"{document_id}_v{len(self.documents[document_id]) + 1}"
new_version_id(docs, document_id) ==
    [doc |-> document_id, seq |-> Len(get(docs, document_id)) + 1]

\* slip: the stored snapshots are given the score of the new one
append_version_rescoring(docs, document_id, snapshot) ==
    setitem(docs, document_id,
            Append([i \in 1..Len(get(docs, document_id)) |->
                       [get(docs, document_id)[i] EXCEPT
                           !.authenticity_score = snapshot.authenticity_score]],
                   snapshot))

\* self.documents[document_id].append(snapshot)
append_version(docs, document_id, snapshot) ==
    setitem(docs, document_id, Append(get(docs, document_id), snapshot))

\* slip: the list is left in insertion order
sort_versions_skipped(docs, document_id) == docs

\* self.documents[document_id].sort(key=lambda v: v.timestamp)
sort_versions(docs, document_id) ==
    setitem(docs, document_id, sort_by_timestamp(get(docs, document_id)))

---------------------------------------------------------------------------
(* Persistence: history.json                                               *)

\* datetime.isoformat(): the fraction is printed only when microsecond # 0
isoformat(t) == IF t.us = 0 THEN <<t.sec>> ELSE <<t.sec, t.us>>

\* the strings datetime.fromisoformat accepts (anything else: ValueError)
is_isoformat(s) == Len(s) \in {1, 2}

fromisoformat(s) == [sec |-> s[1], us |-> IF Len(s) = 2 THEN s[2] ELSE 0]

\* the JSON object _save_history writes for one snapshot
to_json(v) ==
    [version_id |-> v.version_id,
     timestamp |-> isoformat(v.timestamp),
     text |-> v.text,
     authenticity_score |-> v.authenticity_score,
     style_features |-> v.style_features,
     metadata |-> v.metadata]

\* the file is absent, holds a JSON object (data: its items in file order),
\* or holds bytes json.load rejects
File(kind, data) == [kind |-> kind, data |-> data]

NoFile == File("absent", <<>>)
Unparsable == File("unparsable", <<>>)

\* the JSON object built in _save_history: every document, every snapshot
dump_data(docs) ==
    [i \in 1..Len(docs) |->
        [id |-> docs[i].id,
         versions |-> [j \in 1..Len(docs[i].versions) |->
                          to_json(docs[i].versions[j])]]]

\* the file after _save_history has returned
_save_history(docs) == File("json", dump_data(docs))

RequiredKeys ==
    {"version_id", "timestamp", "text", "authenticity_score", "style_features"}

\* the VersionSnapshot(...) call of _load_history does not raise on o
loadable(o) ==
    /\ RequiredKeys \subseteq DOMAIN o
    /\ is_isoformat(o.timestamp)

\* slip: the stored metadata is not read back
from_json_without_metadata(o) ==
    VersionSnapshot(o.version_id, fromisoformat(o.timestamp), o.text,
                    o.authenticity_score, o.style_features, <<>>)

from_json(o) ==
    VersionSnapshot(o.version_id, fromisoformat(o.timestamp), o.text,
                    o.authenticity_score, o.style_features,
                    IF "metadata" \in DOMAIN o THEN o.metadata ELSE <<>>)

\* the loop over data.items(): a document is assigned once its whole list
\* is built; the first exception ends the loop and is swallowed
RECURSIVE load_items(_, _, _)
load_items(data, i, docs) ==
    IF i > Len(data) THEN docs
    ELSE IF \A j \in 1..Len(data[i].versions) : loadable(data[i].versions[j])
         THEN load_items(data, i + 1,
                  setitem(docs, data[i].id,
                      [j \in 1..Len(data[i].versions) |->
                          from_json(data[i].versions[j])]))
         ELSE docs

\* slip: the history file is not read at construction
_load_history_unread(file) == <<>>

\* self.documents after __init__ has run _load_history on file
_load_history(file) ==
    IF file.kind = "json" THEN load_items(file.data, 1, <<>>) ELSE <<>>

---------------------------------------------------------------------------
(* Inputs                                                                  *)

\* an optional argument: None, or a value
None == [given |-> FALSE, value |-> <<>>]
Some(v) == [given |-> TRUE, value |-> v]

HiText == <<"H", "i", ".">>

\* metadata is a JSON value, as the persisted layout requires: None or a
\* dict of strings here
SourceMeta == << <<"source", "kaggle_dataset">> >>

TimestampArgs == {None} \cup {Some(t) : t \in Timestamps}

\* the calls made: what is passed, and what the scoring client does
Request(text, metadata, outcome) ==
    [text |-> text, metadata |-> metadata, outcome |-> outcome]

Requests ==
    {Request(<<>>, None, Outcome("unavailable", Zero)),
     Request(HiText, Some(SourceMeta), Outcome("number", Frac(3, 10)))}

\* datetime.now() is read only when no timestamp is passed
Clock(timestamp) == IF timestamp.given THEN {timestamp.value} ELSE Timestamps

\* metadata or {}
or_empty(metadata) ==
    IF metadata.given /\ metadata.value # <<>> THEN metadata.value ELSE <<>>

---------------------------------------------------------------------------
(* Read views of the Flask backend                                         *)

\* GET /api/documents/<document_id>/versions
get_versions(docs, document_id) ==
    LET versions == get(docs, document_id)
    IN  [document_id |-> document_id,
         versions |-> [i \in 1..Len(versions) |-> to_json(versions[i])]]

\* GET /api/documents: one summary per key of the mapping
list_documents(docs) ==
    [i \in 1..Len(docs) |->
        LET versions == docs[i].versions
        IN  [document_id |-> docs[i].id,
             version_count |-> Len(versions),
             latest_version |->
                 IF versions # <<>>
                 THEN Some(versions[Len(versions)].version_id) ELSE None,
             created_at |->
                 IF versions # <<>>
                 THEN Some(isoformat(versions[1].timestamp)) ELSE None,
             updated_at |->
                 IF versions # <<>>
                 THEN Some(isoformat(versions[Len(versions)].timestamp))
                 ELSE None]]

---------------------------------------------------------------------------
(* Drift detection (detect_style_drift)                                    *)

FracLT(x, y) == x[1] * y[2] < y[1] * x[2]

FracAdd(x, y) == Frac(x[1] * y[2] + y[1] * x[2], x[2] * y[2])

\* abs(x - y)
AbsDiff(x, y) ==
    LET n == x[1] * y[2] - y[1] * x[2]
    IN  Frac(IF n < 0 THEN 0 - n ELSE n, x[2] * y[2])

\* x / k for an int k > 0
FracDiv(x, k) == Frac(x[1], x[2] * k)

\* sum(d.values()) of a dict d given as a function
RECURSIVE sum_values(_, _)
sum_values(d, ks) ==
    IF ks = {} THEN Zero
    ELSE LET k == CHOOSE x \in ks : TRUE
         IN  FracAdd(d[k], sum_values(d, ks \ {k}))

\* the literal 0.15 of line 176
DriftThreshold == Frac(15, 100)

\* lines 162-166: one entry per key of prev.style_features that curr has too
feature_drifts(prev, curr) ==
    [key \in DOMAIN prev.style_features \cap DOMAIN curr.style_features |->
        AbsDiff(curr.style_features[key], prev.style_features[key])]

\* line 169: sum(...) / len(...) if feature_drifts else 0
mean_feature_drift(prev, curr) ==
    LET fd == feature_drifts(prev, curr)
    IN  IF DOMAIN fd = {} THEN Zero
        ELSE FracDiv(sum_values(fd, DOMAIN fd), Cardinality(DOMAIN fd))

\* line 172
auth_drift(prev, curr) ==
    AbsDiff(curr.authenticity_score, prev.authenticity_score)

\* slip: the authenticity term is left out of the total
total_drift_features_only(prev, curr) ==
    FracDiv(mean_feature_drift(prev, curr), 2)

\* line 174: (drift_score + auth_drift) / 2
total_drift(prev, curr) ==
    FracDiv(FracAdd(mean_feature_drift(prev, curr), auth_drift(prev, curr)), 2)

\* slip: >= in place of >
significant_inclusive(drift) == FracLE(DriftThreshold, drift)

\* line 176: total_drift > 0.15
significant(drift) == FracLT(DriftThreshold, drift)

\* lines 177-184
drift_point(prev, curr) ==
    [from_version |-> prev.version_id,
     to_version |-> curr.version_id,
     timestamp |-> curr.timestamp,
     drift_score |-> total_drift(prev, curr),
     auth_drift |-> auth_drift(prev, curr),
     feature_drifts |-> feature_drifts(prev, curr)]

\* lines 157-186: for i in range(1, len(versions)), with the two lists the
\* loop fills; acc is [drifts, drift_points]
RECURSIVE drift_loop(_, _, _)
drift_loop(versions, i, acc) ==
    IF i > Len(versions) THEN acc
    ELSE LET prev == versions[i - 1]
             curr == versions[i]
         IN  drift_loop(versions, i + 1,
                 [drifts |-> Append(acc.drifts, total_drift(prev, curr)),
                  drift_points |->
                      IF significant(total_drift(prev, curr))
                      THEN Append(acc.drift_points, drift_point(prev, curr))
                      ELSE acc.drift_points])

RECURSIVE sum_list(_)
sum_list(xs) == IF xs = <<>> THEN Zero ELSE FracAdd(Head(xs), sum_list(Tail(xs)))

\* lines 151-152
Insufficient ==
    [drift_detected |-> FALSE, drift_score |-> Zero,
     details |-> "Insufficient versions"]

\* lines 188-196
drift_report(versions) ==
    LET acc == drift_loop(versions, 2, [drifts |-> <<>>, drift_points |-> <<>>])
    IN  [drift_detected |-> Len(acc.drift_points) > 0,
         drift_score |->
             IF acc.drifts # <<>>
             THEN FracDiv(sum_list(acc.drifts), Len(acc.drifts)) ELSE Zero,
         drift_points |-> acc.drift_points,
         total_versions |-> Len(versions),
         significant_changes |-> Len(acc.drift_points)]

\* slip: the guard is len(versions) < 1
detect_style_drift_from_one(docs, document_id, window_size) ==
    LET versions == get(docs, document_id)
    IN  IF Len(versions) < 1 THEN Insufficient ELSE drift_report(versions)

\* window_size is accepted and never read
detect_style_drift(docs, document_id, window_size) ==
    LET versions == get(docs, document_id)
    IN  IF Len(versions) < 2 THEN Insufficient ELSE drift_report(versions)

---------------------------------------------------------------------------
(* History analysis (analyze_version_history)                              *)

FracMul(x, y) == Frac(x[1] * y[1], x[2] * y[2])

\* an exception leaving the method
Raised(exception) == [raised |-> exception]

\* lines 210-215
authenticity_trend(scores) ==
    IF Len(scores) > 1
    THEN [direction |-> IF FracLT(scores[1], scores[Len(scores)])
                        THEN "increasing" ELSE "decreasing",
          magnitude |-> AbsDiff(scores[Len(scores)], scores[1]),
          scores |-> scores]
    ELSE [direction |-> "stable", magnitude |-> Zero, scores |-> scores]

\* lines 218-221: feature_evolution[key], the values of key version by version
feature_values(versions, key) ==
    LET having == SelectSeq(versions, LAMBDA v : key \in DOMAIN v.style_features)
    IN  [i \in 1..Len(having) |-> having[i].style_features[key]]

feature_keys(versions) ==
    UNION {DOMAIN versions[i].style_features : i \in 1..Len(versions)}

\* numpy.var: the mean of the squared deviations from the mean
var(values) ==
    LET mean == FracDiv(sum_list(values), Len(values))
        sq == [i \in 1..Len(values) |->
                  FracMul(AbsDiff(values[i], mean), AbsDiff(values[i], mean))]
    IN  FracDiv(sum_list(sq), Len(values))

max_of(values) ==
    values[CHOOSE i \in 1..Len(values) :
              \A j \in 1..Len(values) : FracLE(values[j], values[i])]

min_of(values) ==
    values[CHOOSE i \in 1..Len(values) :
              \A j \in 1..Len(values) : FracLE(values[i], values[j])]

\* lines 227-231, for one key with more than one value
variance_entry(values) ==
    [variance |-> var(values),
     range |-> AbsDiff(max_of(values), min_of(values)),
     trend |-> IF FracLT(values[1], values[Len(values)]) THEN "increasing"
               ELSE IF FracLT(values[Len(values)], values[1]) THEN "decreasing"
               ELSE "stable"]

\* the keys the loop of lines 225-231 computes an entry for
varying_keys(versions) ==
    {key \in feature_keys(versions) : Len(feature_values(versions, key)) > 1}

\* (timestamps[-1] - timestamps[0]).days: whole days, rounded down
days_between(first, last) ==
    ((last.sec - first.sec) - (IF last.us < first.us THEN 1 ELSE 0)) \div 86400

\* has_numpy: `import numpy as np` succeeded when the module was loaded
\* (lines 15-22); when it failed the name np is unbound, and line 228
\* evaluates np before anything else
analyze_version_history(docs, document_id, has_numpy) ==
    LET versions == get(docs, document_id)
        n == Len(versions)
    IN  IF versions = <<>> THEN [error |-> "No versions found"]
        ELSE IF varying_keys(versions) # {} /\ ~has_numpy
        THEN Raised("NameError")
        ELSE [document_id |-> document_id,
              total_versions |-> n,
              time_span |->
                  [start |-> isoformat(versions[1].timestamp),
                   end |-> isoformat(versions[n].timestamp),
                   duration_days |->
                       IF n > 1
                       THEN days_between(versions[1].timestamp,
                                         versions[n].timestamp)
                       ELSE 0],
              authenticity_trend |->
                  authenticity_trend([i \in 1..n |->
                                         versions[i].authenticity_score]),
              feature_evolution |->
                  [key \in varying_keys(versions) |->
                      variance_entry(feature_values(versions, key))],
              drift_analysis |-> detect_style_drift(docs, document_id, 3)]

---------------------------------------------------------------------------
(* Operations, one call at a time                                          *)

Completed(op, document_id, res, ret) ==
    [op |-> op, doc |-> document_id, res |-> res, ret |-> ret]

total_versions(docs) == SumLen([i \in 1..Len(docs) |-> docs[i].versions])

\* the snapshot add_version builds (lines 66-82); now is datetime.now()
new_snapshot(docs, document_id, text, timestamp, metadata, outcome, now) ==
    VersionSnapshot(new_version_id(docs, document_id),
                    IF timestamp.given THEN timestamp.value ELSE now,
                    text,
                    _analyze_authenticity(text, outcome),
                    _extract_style_features(text),
                    or_empty(metadata))

\* slip: the list is replaced by one that holds the new snapshot only
added_keeping_latest(docs, document_id, snapshot) ==
    setitem(getitem(docs, document_id), document_id, <<snapshot>>)

\* self.documents once add_version has appended snapshot and sorted
added(docs, document_id, snapshot) ==
    sort_versions(append_version(getitem(docs, document_id), document_id,
                                 snapshot),
                  document_id)

\* slip: _save_history runs before the append
add_version_stale(document_id, text, timestamp, metadata, outcome, now) ==
    LET snapshot == new_snapshot(documents, document_id, text, timestamp,
                                 metadata, outcome, now)
    IN  /\ total_versions(documents) < MaxVersions
        /\ documents' = added(documents, document_id, snapshot)
        /\ disk' = _save_history(documents)
        /\ calls' = [calls EXCEPT ![document_id] = @ + 1]
        /\ lastOp' = Completed("add_version", document_id, "ok", <<snapshot>>)
        /\ UNCHANGED <<threads, inSort>>

add_version(document_id, text, timestamp, metadata, outcome, now) ==
    LET snapshot == new_snapshot(documents, document_id, text, timestamp,
                                 metadata, outcome, now)
    IN  /\ total_versions(documents) < MaxVersions
        /\ documents' = added(documents, document_id, snapshot)
        /\ disk' = _save_history(documents')
        /\ calls' = [calls EXCEPT ![document_id] = @ + 1]
        /\ lastOp' = Completed("add_version", document_id, "ok", <<snapshot>>)
        /\ UNCHANGED <<threads, inSort>>

\* slip: the test subscripts the defaultdict, which inserts the missing key
delete_document_by_subscript(document_id) ==
    IF get(documents, document_id) # <<>>
    THEN /\ documents' = delitem(documents, document_id)
         /\ disk' = _save_history(documents')
         /\ calls' = [calls EXCEPT ![document_id] = 0]
         /\ lastOp' = Completed("delete_document", document_id, "200", <<>>)
         /\ UNCHANGED <<threads, inSort>>
    ELSE /\ documents' = getitem(documents, document_id)
         /\ lastOp' = Completed("delete_document", document_id, "404", <<>>)
         /\ UNCHANGED <<disk, calls, threads, inSort>>

\* DELETE /api/documents/<document_id>
delete_document(document_id) ==
    IF contains(documents, document_id)
    THEN /\ documents' = delitem(documents, document_id)
         /\ disk' = _save_history(documents')
         /\ calls' = [calls EXCEPT ![document_id] = 0]
         /\ lastOp' = Completed("delete_document", document_id, "200", <<>>)
         /\ UNCHANGED <<threads, inSort>>
    ELSE /\ lastOp' = Completed("delete_document", document_id, "404", <<>>)
         /\ UNCHANGED <<documents, disk, calls, threads, inSort>>

\* a new process: TemporalTracker() over the same storage_path
__init__ ==
    /\ documents' = _load_history(disk)
    /\ lastOp' = Completed("__init__", "", "ok", <<>>)
    /\ UNCHANGED <<disk, calls, threads, inSort>>

\* a request thread outside any handler
Idle ==
    [pc |-> "idle", op |-> "", doc |-> "", snapshot |-> <<>>,
     saved |-> <<>>, savedMark |-> FALSE, data |-> <<>>, i |-> 0, n |-> 0,
     before |-> NoFile]

\* the tracker constructed over file
Constructed(file) ==
    /\ disk = file
    /\ documents = _load_history(file)
    /\ calls = [d \in DocIds |-> 0]
    /\ lastOp = Completed("__init__", "", "ok", <<>>)
    /\ threads = [t \in ThreadIds |-> Idle]
    /\ inSort = {}

\* a fresh storage directory
Init == Constructed(NoFile)

Next ==
    \/ \E d \in DocIds, r \in Requests, ts \in TimestampArgs :
          \E now \in Clock(ts) :
            add_version(d, r.text, ts, r.metadata, r.outcome, now)
    \/ \E d \in DocIds : delete_document(d)
    \/ __init__

Spec == Init /\ [][Next]_vars

---------------------------------------------------------------------------
(* Startup over a history file found on disk                               *)

without_key(o, k) == [x \in DOMAIN o \ {k} |-> o[x]]

\* a well-formed record of a first version of document_id
StoredVersion(document_id) ==
    to_json(VersionSnapshot([doc |-> document_id, seq |-> 1], T2, HiText,
                            Frac(3, 10), _extract_style_features(HiText),
                            SourceMeta))

\* the lists a document's entry may hold: well-formed ones (metadata is
\* optional), and ones with a record that lacks "text" or whose timestamp
\* is no ISO-8601 string
StoredLists(document_id) ==
    LET ok == StoredVersion(document_id)
    IN  {<<ok>>,
         <<without_key(ok, "metadata")>>,
         <<without_key(ok, "text")>>,
         <<[ok EXCEPT !.timestamp = <<>>]>>,
         <<ok, without_key(ok, "text")>>}

StoredEntries(document_id) ==
    {[id |-> document_id, versions |-> l] : l \in StoredLists(document_id)}

PersistedRecords ==
    {NoFile, Unparsable}
    \cup {File("json", <<e>>) :
            e \in StoredEntries("d1") \cup StoredEntries("d2")}
    \cup {File("json", <<e1, e2>>) :
            e1 \in StoredEntries("d1"), e2 \in StoredEntries("d2")}
    \cup {File("json", <<e2, e1>>) :
            e1 \in StoredEntries("d1"), e2 \in StoredEntries("d2")}

InitLoad == \E file \in PersistedRecords : Constructed(file)

SpecLoad == InitLoad /\ [][Next]_vars

---------------------------------------------------------------------------
(* The analyses called on the store                                        *)

WindowSizes == {1, 2, 3}

\* the add_version calls made before an analysis: one text under the
\* scores 0, 0.3 and 0.8, and the empty text under the default score
AnalysedCall(text, outcome, timestamp) ==
    [text |-> text, outcome |-> outcome, timestamp |-> timestamp]

AnalysedCalls ==
    {AnalysedCall(HiText, Outcome("number", Zero), T1),
     AnalysedCall(HiText, Outcome("number", Frac(3, 10)), T3),
     AnalysedCall(HiText, Outcome("number", Frac(8, 10)), T1),
     AnalysedCall(HiText, Outcome("number", Frac(8, 10)), T3),
     AnalysedCall(<<>>, Outcome("error", Zero), T3)}

\* tracker.detect_style_drift(document_id, window_size)
call_detect_style_drift(document_id, window_size) ==
    /\ lastOp' = Completed("detect_style_drift", document_id, "ok",
                     <<detect_style_drift(documents, document_id, window_size)>>)
    /\ documents' = after_get(documents, document_id)
    /\ UNCHANGED <<disk, calls, threads, inSort>>

\* tracker.analyze_version_history(document_id)
call_analyze_version_history(document_id, has_numpy) ==
    LET ret == analyze_version_history(documents, document_id, has_numpy)
    IN  /\ lastOp' = Completed("analyze_version_history", document_id,
                         IF ret = Raised("NameError") THEN "NameError" ELSE "ok",
                         <<ret>>)
        /\ documents' = after_get(documents, document_id)
        /\ UNCHANGED <<disk, calls, threads, inSort>>

NextAnalysed ==
    \/ \E c \in AnalysedCalls :
          add_version("d1", c.text, Some(c.timestamp), None, c.outcome,
                      c.timestamp)
    \/ \E d \in DocIds : delete_document(d)
    \/ \E d \in DocIds, w \in WindowSizes : call_detect_style_drift(d, w)
    \/ \E d \in DocIds, np \in BOOLEAN : call_analyze_version_history(d, np)

SpecAnalysed == Init /\ [][NextAnalysed]_vars

---------------------------------------------------------------------------
(* The scorer under every outcome of the classification call               *)

\* the client is missing, raises, replies without a number, replies with
\* "1.2.3", or replies with 0, 0.3, 1.5 or 7
ScoredOutcomes ==
    {Outcome("unavailable", Zero), Outcome("error", Zero),
     Outcome("no_number", Zero), Outcome("bad_number", Zero),
     Outcome("number", Zero), Outcome("number", Frac(3, 10)),
     Outcome("number", Frac(3, 2)), Outcome("number", Frac(7, 1))}

ScoredTexts == {<<>>, HiText}

NextScored ==
    \/ \E text \in ScoredTexts, outcome \in ScoredOutcomes :
          add_version("d1", text, Some(T1), None, outcome, T1)
    \/ \E d \in DocIds : delete_document(d)

SpecScored == Init /\ [][NextScored]_vars

---------------------------------------------------------------------------
(* The operations when history.json cannot be opened for writing           *)

\* add_version when open(file_path, 'w') of line 364 raises OSError: the
\* snapshot is in the list (lines 84-85), _save_history has no handler and
\* neither has add_version, so the exception leaves add_version
add_version_unwritable(document_id, text, timestamp, metadata, outcome, now) ==
    LET snapshot == new_snapshot(documents, document_id, text, timestamp,
                                 metadata, outcome, now)
    IN  /\ total_versions(documents) < MaxVersions
        /\ documents' = added(documents, document_id, snapshot)
        /\ calls' = [calls EXCEPT ![document_id] = @ + 1]
        /\ lastOp' = Completed("add_version", document_id, "OSError", <<>>)
        /\ UNCHANGED <<disk, threads, inSort>>

\* DELETE /api/documents/<document_id> when the same open raises: the key
\* is gone (line 152) and the exception leaves the handler
delete_document_unwritable(document_id) ==
    IF contains(documents, document_id)
    THEN /\ documents' = delitem(documents, document_id)
         /\ calls' = [calls EXCEPT ![document_id] = 0]
         /\ lastOp' = Completed("delete_document", document_id, "OSError", <<>>)
         /\ UNCHANGED <<disk, threads, inSort>>
    ELSE /\ lastOp' = Completed("delete_document", document_id, "404", <<>>)
         /\ UNCHANGED <<documents, disk, calls, threads, inSort>>

UnwritableTimestamps == {Some(T1), Some(T3)}

\* each call finds the file writable or not
NextUnwritable ==
    \/ \E d \in DocIds, ts \in UnwritableTimestamps :
          \/ add_version(d, HiText, ts, Some(SourceMeta),
                         Outcome("number", Frac(3, 10)), ts.value)
          \/ add_version_unwritable(d, HiText, ts, Some(SourceMeta),
                                    Outcome("number", Frac(3, 10)), ts.value)
    \/ \E d \in DocIds : delete_document(d)
    \/ \E d \in DocIds : delete_document_unwritable(d)

SpecUnwritable == Init /\ [][NextUnwritable]_vars

---------------------------------------------------------------------------
(* The handlers statement by statement, as request threads run them.       *)
(* A step is one statement's access to the shared mapping, list or file;   *)
(* the interpreter may switch threads between any two steps.  No handler   *)
(* takes a lock.                                                           *)

Resume(t, local) == threads' = [threads EXCEPT ![t] = local]

Finish(t, res, ret) ==
    /\ threads' = [threads EXCEPT ![t] = Idle]
    /\ lastOp' = Completed(threads[t].op, threads[t].doc, res, ret)

\* lines 66-82: the analysis is local; line 73 reads the length of the list
\* (the defaultdict inserts a missing key) and names the snapshot
av_begin(t, document_id, text, timestamp, metadata, outcome, now) ==
    /\ threads[t].pc = "idle"
    /\ documents' = getitem(documents, document_id)
    /\ calls' = [calls EXCEPT ![document_id] = @ + 1]
    /\ Resume(t, [Idle EXCEPT
            !.pc = "append", !.op = "add_version", !.doc = document_id,
            !.snapshot = <<new_snapshot(documents, document_id, text,
                                        timestamp, metadata, outcome, now)>>])
    /\ UNCHANGED <<disk, lastOp, inSort>>

\* line 84: an append gives the list object a buffer again (allocated >= 0)
av_append(t) ==
    LET d == threads[t].doc
    IN  /\ threads[t].pc = "append"
        /\ documents' = append_version(getitem(documents, d), d,
                                       threads[t].snapshot[1])
        /\ inSort' = inSort \ {d}
        /\ Resume(t, [threads[t] EXCEPT !.pc = "sort"])
        /\ UNCHANGED <<disk, lastOp, calls>>

\* line 85, entering list.sort: the items are taken out of the list object
\* (it reads as empty, allocated = -1) while the key lambda runs on each;
\* an empty list has no key to compute and is sorted in one step
av_sort_begin(t) ==
    LET d == threads[t].doc
        versions == get(documents, d)
    IN  /\ threads[t].pc = "sort"
        /\ IF versions = <<>>
           THEN /\ Resume(t, [threads[t] EXCEPT !.pc = "build"])
                /\ UNCHANGED <<documents, inSort>>
           ELSE /\ documents' = setitem(documents, d, <<>>)
                /\ inSort' = inSort \cup {d}
                /\ Resume(t, [threads[t] EXCEPT
                        !.pc = "sorting", !.saved = versions,
                        !.savedMark = (d \in inSort)])
        /\ UNCHANGED <<disk, lastOp, calls>>

\* line 85, leaving list.sort: the sorted items are put back, whatever the
\* list object received meanwhile is dropped, and a list that was touched
\* raises ValueError("list modified during sort") out of add_version
av_sort_end(t) ==
    LET d == threads[t].doc
    IN  /\ threads[t].pc = "sorting"
        /\ documents' = setitem(documents, d,
                                sort_by_timestamp(threads[t].saved))
        /\ inSort' = IF threads[t].savedMark
                     THEN inSort \cup {d} ELSE inSort \ {d}
        /\ IF d \in inSort
           THEN /\ Resume(t, [threads[t] EXCEPT !.pc = "build"])
                /\ UNCHANGED lastOp
           ELSE Finish(t, "ValueError", <<>>)
        /\ UNCHANGED <<disk, calls>>

\* lines 350-361, one turn of the loop over self.documents.items(): the
\* iterator raises RuntimeError("dictionary changed size during iteration")
\* when a key was inserted since the loop began
sh_next(t) ==
    LET i == threads[t].i
        n == IF i = 0 THEN Len(documents) ELSE threads[t].n
    IN  /\ threads[t].pc = "build"
        /\ IF Len(documents) # n
           THEN Finish(t, "RuntimeError", <<>>)
           ELSE /\ IF i >= n
                   THEN Resume(t, [threads[t] EXCEPT
                            !.pc = "open", !.n = n,
                            !.data = dump_data(@)])
                   ELSE Resume(t, [threads[t] EXCEPT
                            !.i = i + 1, !.n = n,
                            !.data = Append(@, documents[i + 1])])
                /\ UNCHANGED lastOp
        /\ UNCHANGED <<documents, disk, calls, inSort>>

\* line 364: open(file_path, 'w') leaves an empty file
sh_open(t) ==
    /\ threads[t].pc = "open"
    /\ disk' = Unparsable
    /\ Resume(t, [threads[t] EXCEPT !.pc = "dump", !.before = disk])
    /\ UNCHANGED <<documents, lastOp, calls, inSort>>

\* line 365 and the end of the with block: the whole text is in the file;
\* the handler returns
sh_dump(t) ==
    /\ threads[t].pc = "dump"
    /\ disk' = File("json", threads[t].data)
    /\ Finish(t, IF threads[t].op = "add_version" THEN "ok" ELSE "200",
              threads[t].snapshot)
    /\ UNCHANGED <<documents, calls, inSort>>

\* app.py lines 151-153: the key is removed, then _save_history runs
dd_begin(t, document_id) ==
    /\ threads[t].pc = "idle"
    /\ IF contains(documents, document_id)
       THEN /\ documents' = delitem(documents, document_id)
            /\ calls' = [calls EXCEPT ![document_id] = 0]
            /\ inSort' = inSort \ {document_id}
            /\ Resume(t, [Idle EXCEPT !.pc = "build",
                              !.op = "delete_document", !.doc = document_id])
            /\ UNCHANGED lastOp
       ELSE /\ lastOp' = Completed("delete_document", document_id, "404", <<>>)
            /\ UNCHANGED <<documents, calls, inSort, threads>>
    /\ UNCHANGED disk

\* the process dies where thread t stands and is started again:
\* TemporalTracker() reads whatever the file holds
crash(t) ==
    /\ documents' = _load_history(disk)
    /\ threads' = [u \in ThreadIds |-> Idle]
    /\ inSort' = {}
    /\ lastOp' = Completed("crash", threads[t].doc,
                           IF threads[t].pc = "dump" THEN "writing" ELSE "",
                           <<threads[t].before,
                             File("json", threads[t].data)>>)
    /\ calls' = [d \in DocIds |-> Len(get(documents', d))]
    /\ UNCHANGED disk

ThreadStep(t) ==
    \/ av_append(t)
    \/ av_sort_begin(t)
    \/ av_sort_end(t)
    \/ sh_next(t)
    \/ sh_open(t)
    \/ sh_dump(t)

calls_begun == calls["d1"] + calls["d2"]

\* two request threads of the backend serving POST .../versions
NextConc ==
    \E t \in ThreadIds :
        \/ /\ calls_begun < MaxCalls
           /\ \E d \in DocIds, r \in Requests, ts \in TimestampArgs :
                 \E now \in Clock(ts) :
                   av_begin(t, d, r.text, ts, r.metadata, r.outcome, now)
        \/ ThreadStep(t)

SpecConc == Init /\ [][NextConc]_vars

\* one thread serving requests, and the process killed at any step
NextCrash ==
    \/ /\ total_versions(documents) < MaxCrashVersions
       /\ \E d \in DocIds, r \in Requests, ts \in TimestampArgs :
             \E now \in Clock(ts) :
               av_begin("t1", d, r.text, ts, r.metadata, r.outcome, now)
    \/ \E d \in DocIds : dd_begin("t1", d)
    \/ ThreadStep("t1")
    \/ crash("t1")

SpecCrash == Init /\ [][NextCrash]_vars

\* GET /api/documents/<document_id>/versions served by another request
\* thread: it takes the list of the mapping as it stands, with no lock
call_get_versions(document_id) ==
    /\ lastOp' = Completed("get_versions", document_id, "200",
                           <<get_versions(documents, document_id)>>)
    /\ documents' = after_get(documents, document_id)
    /\ UNCHANGED <<disk, calls, threads, inSort>>

\* one thread serving POST .../versions while reads are served
NextReading ==
    \/ /\ total_versions(documents) < MaxCrashVersions
       /\ \E d \in DocIds, r \in Requests, ts \in TimestampArgs :
             \E now \in Clock(ts) :
               av_begin("t1", d, r.text, ts, r.metadata, r.outcome, now)
    \/ ThreadStep("t1")
    \/ \E d \in DocIds : call_get_versions(d)

SpecReading == Init /\ [][NextReading]_vars

---------------------------------------------------------------------------
(* The read operations of the backend, one call at a time                  *)

\* POST /api/analyze (app.py lines 43-64): nothing of the tracker's state
\* is read or written
analyze_text(text, outcome) ==
    IF text = <<>> THEN [error |-> "No text provided"]
    ELSE LET authenticity_score == _analyze_authenticity(text, outcome)
         IN  [authenticity_score |-> authenticity_score,
              style_features |-> _extract_style_features(text),
              prediction |-> IF FracLT(Frac(1, 2), authenticity_score)
                             THEN "human" ELSE "ai",
              confidence |-> FracMul(AbsDiff(authenticity_score, Frac(1, 2)),
                                     Frac(2, 1))]

call_analyze_text(text, outcome) ==
    /\ lastOp' = Completed("analyze", "",
                           IF text = <<>> THEN "400" ELSE "200",
                           <<analyze_text(text, outcome)>>)
    /\ UNCHANGED <<documents, disk, calls, threads, inSort>>

\* GET /api/documents: the loop over tracker.documents.items()
call_list_documents ==
    /\ lastOp' = Completed("list_documents", "", "200",
                           <<list_documents(documents)>>)
    /\ UNCHANGED <<documents, disk, calls, threads, inSort>>

ReadTimestamps == {Some(T1), Some(T3)}

NextReads ==
    \/ \E d \in DocIds, ts \in ReadTimestamps :
          add_version(d, HiText, ts, Some(SourceMeta),
                      Outcome("number", Frac(3, 10)), ts.value)
    \/ \E d \in DocIds : delete_document(d)
    \/ \E d \in DocIds : call_get_versions(d)
    \/ call_list_documents
    \/ \E d \in DocIds, w \in WindowSizes : call_detect_style_drift(d, w)
    \/ \E d \in DocIds, np \in BOOLEAN : call_analyze_version_history(d, np)
    \/ \E r \in Requests : call_analyze_text(r.text, r.outcome)

SpecReads == Init /\ [][NextReads]_vars

---------------------------------------------------------------------------
(* Properties of the store, one call at a time (Spec)                      *)

Returned == lastOp.ret[1]

SeqNumbers(versions) == {versions[i].version_id.seq : i \in 1..Len(versions)}

Sorted(versions) ==
    \A i \in 1..Len(versions), j \in 1..Len(versions) :
        i < j => TsLE(versions[i].timestamp, versions[j].timestamp)

\* the timestamps passed to the 1st, 2nd, 3rd add_version of document_id
CalledWith(docs, document_id, t1, t2, t3) ==
    LET versions == get(docs, document_id)
    IN  /\ Len(versions) = 3
        /\ \A i \in 1..3 :
              versions[i].timestamp =
                  CASE versions[i].version_id.seq = 1 -> t1
                    [] versions[i].version_id.seq = 2 -> t2
                    [] OTHER -> t3

SameStore(a, b) ==
    /\ keys(a) = keys(b)
    /\ \A d \in DocIds : get(a, d) = get(b, d)

\* C1: the k-th add_version call on a document since it was created returns
\* the snapshot whose version_id is "{d}_v{k}", whatever the timestamps.
C1_NumberingFollowsInsertionCount ==
    lastOp.op = "add_version" =>
        Returned.version_id = [doc |-> lastOp.doc, seq |-> calls[lastOp.doc]]

\* the third call on a document returned a snapshot that sorts first
C1_Witness ==
    /\ lastOp.op = "add_version"
    /\ calls[lastOp.doc] = 3
    /\ get(documents, lastOp.doc)[1] = Returned
    /\ Returned.timestamp # get(documents, lastOp.doc)[2].timestamp

\* C2: in every document the version_ids are pairwise distinct and the
\* sequence numbers are exactly 1..n, n the number of versions it holds.
C2_SequenceNumbersAreOneToN ==
    \A e \in 1..Len(documents) :
        LET versions == documents[e].versions
        IN  /\ \A i \in 1..Len(versions), j \in 1..Len(versions) :
                  i # j => versions[i].version_id # versions[j].version_id
            /\ SeqNumbers(versions) = 1..Len(versions)

\* a document deleted and created again beside one whose list order is not
\* its numbering order
C2_Witness ==
    /\ lastOp.op = "add_version"
    /\ calls[lastOp.doc] = 1
    /\ disk.kind = "json"
    /\ \E d \in DocIds \ {lastOp.doc} :
          /\ Len(get(documents, d)) = 2
          /\ get(documents, d)[1].version_id.seq = 2

\* C3: after a completed add_version every document's list is in
\* non-decreasing timestamp order; calls with T3, T1, T2 in that order make
\* get_versions return T1, T2, T3.
C3_SortedByTimestamp ==
    lastOp.op = "add_version" =>
        \A d \in DocIds :
            /\ Sorted(get(documents, d))
            /\ CalledWith(documents, d, T3, T1, T2) =>
                  LET got == get_versions(documents, d).versions
                  IN  [i \in 1..Len(got) |-> got[i].timestamp]
                          = <<isoformat(T1), isoformat(T2), isoformat(T3)>>

C3_Witness ==
    /\ lastOp.op = "add_version"
    /\ CalledWith(documents, lastOp.doc, T3, T1, T2)

C5_FileDescribesWholeStore ==
    (lastOp.op = "add_version"
        \/ (lastOp.op = "delete_document" /\ lastOp.res = "200")) =>
        /\ disk.kind = "json"
        /\ SameStore(_load_history(disk), documents)

\* an add_version on one document while the other holds two snapshots
C5_Witness ==
    /\ lastOp.op = "add_version"
    /\ \E d \in DocIds \ {lastOp.doc} : Len(get(documents, d)) = 2

ListedIds(docs) ==
    {list_documents(docs)[i].document_id : i \in 1..Len(docs)}

DeleteStep(document_id) ==
    /\ lastOp'.op = "delete_document"
    /\ lastOp'.doc = document_id

\* C6: delete_document of an existing document removes it from
\* list_documents, makes get_versions empty, leaves the other documents as
\* they were, and the file no longer holds it.
C6_DeleteRemovesDocument ==
    [][\A d \in DocIds :
          (contains(documents, d) /\ DeleteStep(d)) =>
              /\ lastOp'.res = "200"
              /\ d \notin ListedIds(documents')
              /\ get_versions(documents', d).versions = <<>>
              /\ \A o \in DocIds \ {d} :
                    /\ get(documents', o) = get(documents, o)
                    /\ o \in ListedIds(documents') <=> o \in ListedIds(documents)
              /\ disk'.kind = "json"
              /\ ~contains(_load_history(disk'), d)]_vars

\* a document was deleted and the other one, with snapshots, is still there
C6_Witness ==
    /\ lastOp.op = "delete_document"
    /\ lastOp.res = "200"
    /\ \E d \in DocIds \ {lastOp.doc} : Len(get(documents, d)) = 2

\* C7: delete_document of an id that is no key changes neither the mapping
\* nor the file and answers 'not found'; so a second delete of the same id
\* changes nothing.
C7_DeleteUnknownIsNoOp ==
    [][\A d \in DocIds :
          /\ (~contains(documents, d) /\ DeleteStep(d)) =>
                /\ lastOp'.res = "404"
                /\ documents' = documents
                /\ disk' = disk
          /\ (lastOp = Completed("delete_document", d, "200", <<>>)
                /\ DeleteStep(d)) =>
                /\ documents' = documents
                /\ disk' = disk]_vars

\* 'not found' was answered while the store held a document
C7_Witness ==
    /\ lastOp.op = "delete_document"
    /\ lastOp.res = "404"
    /\ documents # <<>>

AddStep(document_id) ==
    /\ lastOp'.op = "add_version"
    /\ lastOp'.doc = document_id

\* the snapshot of versions that carries version_id, as a set (empty or one)
Carrying(versions, version_id) ==
    {versions[i] : i \in {j \in 1..Len(versions) :
                            versions[j].version_id = version_id}}

\* C15: a snapshot that stays in the store keeps its version_id, timestamp,
\* text, authenticity_score and style_features through every add_version
\* and delete_document, on its document or on another; only its position
\* in the list may change.
C15_SnapshotsImmutable ==
    [][\A d \in DocIds :
          \A i \in 1..Len(get(documents, d)) :
              LET v == get(documents, d)[i]
              IN  \A w \in Carrying(get(documents', d), v.version_id) :
                      /\ w.timestamp = v.timestamp
                      /\ w.text = v.text
                      /\ w.authenticity_score = v.authenticity_score
                      /\ w.style_features = v.style_features]_vars

\* after adds to both documents, the first snapshot of a document stands
\* second in its list, behind a snapshot with another text and score
C15_Witness ==
    /\ lastOp.op = "add_version"
    /\ \E d \in DocIds :
          /\ Len(get(documents, d)) = 2
          /\ get(documents, d)[2].version_id.seq = 1
          /\ get(documents, d)[1].text # get(documents, d)[2].text
          /\ get(documents, d)[1].authenticity_score #
                 get(documents, d)[2].authenticity_score
          /\ \E o \in DocIds \ {d} : Len(get(documents, o)) = 1

\* C20: add_version(d, ...) makes d's list one longer and leaves every other
\* document as it was; a list gets shorter only when delete_document
\* removes the whole document; no step removes or replaces one version.
C20_AppendOnly ==
    [][\A d \in DocIds :
          /\ AddStep(d) =>
                /\ Len(get(documents', d)) = Len(get(documents, d)) + 1
                /\ \A o \in DocIds \ {d} :
                      get(documents', o) = get(documents, o)
          /\ Len(get(documents', d)) < Len(get(documents, d)) =>
                /\ DeleteStep(d)
                /\ ~contains(documents', d)
          /\ contains(documents', d) =>
                \A i \in 1..Len(get(documents, d)) :
                    \E j \in 1..Len(get(documents', d)) :
                        get(documents', d)[j] = get(documents, d)[i]]_vars

\* the third version of a document has been added
C20_Witness ==
    /\ lastOp.op = "add_version"
    /\ Len(get(documents, lastOp.doc)) = 3
    /\ calls[lastOp.doc] = 3

\* C17: add_version with empty text does not fail: the snapshot is
\* appended and persisted like any other, and each of its seven style
\* features is 0.
C17_EmptyTextGivesZeroFeatures ==
    (lastOp.op = "add_version" /\ Returned.text = <<>>) =>
        /\ lastOp.res = "ok"
        /\ \E i \in 1..Len(get(documents, lastOp.doc)) :
              get(documents, lastOp.doc)[i] = Returned
        /\ disk = _save_history(documents)
        /\ DOMAIN Returned.style_features =
               {"avg_sentence_length", "avg_word_length", "lexical_diversity",
                "punctuation_ratio", "caps_ratio", "word_count",
                "sentence_count"}
        /\ \A k \in DOMAIN Returned.style_features :
              Returned.style_features[k] = Zero

\* an empty text was added to a document that holds a non-empty one
C17_Witness ==
    /\ lastOp.op = "add_version"
    /\ Returned.text = <<>>
    /\ \E i \in 1..Len(get(documents, lastOp.doc)) :
          get(documents, lastOp.doc)[i].text # <<>>

---------------------------------------------------------------------------
(* Properties of the scorer (SpecScored)                                   *)

InUnitInterval(x) == FracLE(Zero, x) /\ FracLE(x, One)

StoredScores ==
    UNION {{documents[e].versions[i].authenticity_score :
                i \in 1..Len(documents[e].versions)} : e \in 1..Len(documents)}

\* C16: whatever the classification call does, add_version returns, and
\* the score is in [0, 1]: a number is clamped, a reply without a parsable
\* number or a raised error gives the default 0.5, a missing client gives
\* one constant for every text; so every stored score is in [0, 1].
C16_ScoreInUnitInterval ==
    /\ [](\A x \in StoredScores : InUnitInterval(x))
    /\ [][\A text \in ScoredTexts, outcome \in ScoredOutcomes :
             add_version("d1", text, Some(T1), None, outcome, T1) =>
                 LET score == lastOp'.ret[1].authenticity_score
                 IN  /\ lastOp'.res = "ok"
                     /\ InUnitInterval(score)
                     /\ outcome.kind = "number" =>
                           score = IF FracLE(One, outcome.value) THEN One
                                   ELSE outcome.value
                     /\ outcome.kind \in {"error", "no_number", "bad_number"}
                           => score = Frac(1, 2)
                     /\ outcome.kind = "unavailable" =>
                           score = FallbackScore]_vars

\* a reply above 1 was clamped, beside a snapshot scored by default
C16_Witness ==
    /\ lastOp.op = "add_version"
    /\ Returned.authenticity_score = One
    /\ Frac(1, 2) \in StoredScores

---------------------------------------------------------------------------
(* Properties of an unwritable store (SpecUnwritable)                      *)

\* C18: add_version and delete_document do not fail to their caller when
\* the history file cannot be written: they return their normal result.
C18_WriteFailureIsNotRaised ==
    lastOp.op \in {"add_version", "delete_document"} =>
        lastOp.res \in {"ok", "200", "404"}

---------------------------------------------------------------------------
(* Properties of concurrent calls (SpecConc) and of a crash (SpecCrash)    *)

AllIdle == \A t \in ThreadIds : threads[t].pc = "idle"

BothIn(d) == Len(get(documents, d)) = 2

DistinctIds(d) == SeqNumbers(get(documents, d)) = {1, 2}

FileHasBoth(d) ==
    /\ disk.kind = "json"
    /\ get(_load_history(disk), d) = get(documents, d)
    /\ Len(get(_load_history(disk), d)) = 2

\* C8: whatever the interleaving of two add_version calls for one document,
\* both snapshots are in its list, numbered 1 and 2, the list is sorted by
\* timestamp, and the file written last holds both.
C8_ConcurrentAddsSerialized ==
    \A d \in DocIds :
        (AllIdle /\ calls[d] = 2) =>
            /\ BothIn(d)
            /\ DistinctIds(d)
            /\ Sorted(get(documents, d))
            /\ FileHasBoth(d)

\* C9: after a crash while the history file was being written, the file
\* is readable and is the complete record of before the operation or the
\* complete new one.
C9_CrashKeepsOldOrNewRecord ==
    (lastOp.op = "crash" /\ lastOp.res = "writing") =>
        /\ disk.kind # "unparsable"
        /\ disk \in {lastOp.ret[1], lastOp.ret[2]}

---------------------------------------------------------------------------
(* Properties of a read beside an add_version (SpecReading)                *)

Writer == threads["t1"]

Adding(d) == Writer.op = "add_version" /\ Writer.doc = d

Front(versions) == SubSeq(versions, 1, Len(versions) - 1)

\* the list of d before the add_version in progress, if one is
ListBefore(d) ==
    IF Adding(d) /\ Writer.pc = "sort" THEN Front(get(documents, d))
    ELSE IF Adding(d) /\ Writer.pc = "sorting" THEN Front(Writer.saved)
    ELSE get(documents, d)

\* the list of d once the add_version in progress has appended and sorted
ListAfter(d) ==
    IF Adding(d) /\ Writer.pc = "append"
    THEN sort_by_timestamp(Append(get(documents, d), Writer.snapshot[1]))
    ELSE IF Adding(d) /\ Writer.pc = "sort"
    THEN sort_by_timestamp(get(documents, d))
    ELSE IF Adding(d) /\ Writer.pc = "sorting"
    THEN sort_by_timestamp(Writer.saved)
    ELSE get(documents, d)

Shown(versions) == [i \in 1..Len(versions) |-> to_json(versions[i])]

\* a step in which get_versions(d) answered and the writer stood still
ReadStep(d) ==
    /\ lastOp'.op = "get_versions"
    /\ lastOp'.doc = d
    /\ threads'["t1"].pc = Writer.pc
    /\ threads'["t1"].i = Writer.i

\* C19: a read beside an add_version on the same document sees the list
\* of before the add or the list of after it (the new snapshot in, the list
\* sorted), never a list in between.
C19_ReadSeesBeforeOrAfter ==
    [][\A d \in DocIds :
          ReadStep(d) =>
              \/ lastOp'.ret[1].versions = Shown(ListBefore(d))
              \/ lastOp'.ret[1].versions = Shown(ListAfter(d))]_vars

---------------------------------------------------------------------------
(* Properties of startup (SpecLoad)                                        *)

MalformedVersion(o) ==
    \/ ~(RequiredKeys \subseteq DOMAIN o)
    \/ "timestamp" \in DOMAIN o /\ ~is_isoformat(o.timestamp)

Malformed(file) ==
    \/ file.kind = "unparsable"
    \/ /\ file.kind = "json"
       /\ \E i \in 1..Len(file.data) :
             \E j \in 1..Len(file.data[i].versions) :
                 MalformedVersion(file.data[i].versions[j])

\* C10: a tracker constructed over a malformed record, wherever the
\* malformation is, or over no record, holds no document at all.
C10_MalformedRecordGivesEmptyStore ==
    (lastOp.op = "__init__" /\ (disk = NoFile \/ Malformed(disk))) =>
        documents = <<>>

\* the version_ids a record holds for document d
RecordedIds(file, d) ==
    {get(file.data, d)[i].version_id : i \in 1..Len(get(file.data, d))}

\* C22: when the tracker was constructed over a well-formed record in
\* which d has n versions, the next add_version(d, ...) returns
\* "{d}_v{n+1}", an id none of the loaded versions of d has; and the
\* add_version(d, ...) that follows delete_document(d) returns "{d}_v1".
C22_NumberingAcrossRestartAndDelete ==
    [][\A d \in DocIds :
          AddStep(d) =>
              /\ (lastOp.op = "__init__" /\ disk.kind = "json"
                    /\ ~Malformed(disk)) =>
                    /\ lastOp'.ret[1].version_id =
                           [doc |-> d, seq |-> Len(get(disk.data, d)) + 1]
                    /\ lastOp'.ret[1].version_id \notin RecordedIds(disk, d)
              /\ (lastOp = Completed("delete_document", d, "200", <<>>)
                    \/ ~contains(documents, d)) =>
                    lastOp'.ret[1].version_id = [doc |-> d, seq |-> 1]]_vars

\* a document loaded with one version got "_v2" by its first add_version
\* since the construction, beside a document that got "_v1"
C22_Witness ==
    /\ lastOp.op = "add_version"
    /\ calls[lastOp.doc] = 1
    /\ Returned.version_id.seq = 2
    /\ \E o \in DocIds \ {lastOp.doc} :
          /\ calls[o] = 1
          /\ SeqNumbers(get(documents, o)) = {1}

---------------------------------------------------------------------------
(* Properties of the analyses (SpecAnalysed)                               *)

Analysed == get(documents, lastOp.doc)

\* over the pair (i-1, i) of a list: the mean of the absolute differences
\* of the shared features plus the absolute authenticity difference, halved
PairDrift(versions, i) == total_drift(versions[i - 1], versions[i])

\* the pairs whose drift is strictly above 0.15
DriftingPairs(versions) ==
    {i \in 2..Len(versions) : FracLT(Frac(15, 100), PairDrift(versions, i))}

\* C11: detect_style_drift on a document with fewer than 2 versions (one
\* version, or an unknown id) returns drift_detected = false, drift_score
\* = 0 and a note, whatever window_size is, and computes no pair.
C11_FewerThanTwoVersionsNoDrift ==
    [][\A d \in DocIds, w \in WindowSizes :
          (Len(get(documents, d)) < 2 /\ call_detect_style_drift(d, w)) =>
              /\ lastOp'.ret[1].drift_detected = FALSE
              /\ lastOp'.ret[1].drift_score = Zero
              /\ "details" \in DOMAIN lastOp'.ret[1]
              /\ "drift_points" \notin DOMAIN lastOp'.ret[1]]_vars

\* drift was asked of a document that holds exactly one version
C11_Witness ==
    /\ lastOp.op = "detect_style_drift"
    /\ Len(Analysed) = 1
    /\ Returned = Insufficient

\* C12: with n >= 2 versions there is exactly one drift point per
\* consecutive pair of the timestamp-ordered list whose drift is strictly
\* above 0.15, in list order, naming version i-1, version i and the
\* timestamp of version i; drift_detected says whether there is a point.
C12_OnePointPerDriftingPair ==
    (lastOp.op = "detect_style_drift" /\ Len(Analysed) >= 2) =>
        LET points == Returned.drift_points
            pairs == DriftingPairs(Analysed)
        IN  /\ Len(points) = Cardinality(pairs)
            /\ \A i \in pairs :
                  LET k == Cardinality({j \in pairs : j <= i})
                  IN  /\ points[k].from_version = Analysed[i - 1].version_id
                      /\ points[k].to_version = Analysed[i].version_id
                      /\ points[k].timestamp = Analysed[i].timestamp
            /\ Returned.drift_detected <=> (Len(points) > 0)

\* three versions: the first pair drifts by exactly 0.15 and gives no
\* point, the second pair gives the only point
C12_Witness ==
    /\ lastOp.op = "detect_style_drift"
    /\ Len(Analysed) = 3
    /\ PairDrift(Analysed, 2) = Frac(15, 100)
    /\ Len(Returned.drift_points) = 1
    /\ Returned.drift_points[1].to_version = Analysed[3].version_id

\* C13: two versions with identical features and scores more than 0.3
\* apart give drift_detected and exactly one point, above 0.15, from the
\* earlier version (by timestamp) to the later one.
C13_ScoreJumpIsDrift ==
    (/\ lastOp.op = "detect_style_drift"
     /\ Len(Analysed) = 2
     /\ Analysed[1].style_features = Analysed[2].style_features
     /\ FracLT(Frac(3, 10), AbsDiff(Analysed[1].authenticity_score,
                                    Analysed[2].authenticity_score))) =>
        /\ Returned.drift_detected
        /\ Len(Returned.drift_points) = 1
        /\ FracLT(Frac(15, 100), Returned.drift_points[1].drift_score)
        /\ Returned.drift_points[1].from_version = Analysed[1].version_id
        /\ Returned.drift_points[1].to_version = Analysed[2].version_id
        /\ TsLE(Analysed[1].timestamp, Analysed[2].timestamp)

\* the version added second carries the earlier timestamp, so the point
\* runs from "_v2" to "_v1"
C13_Witness ==
    /\ lastOp.op = "detect_style_drift"
    /\ Len(Analysed) = 2
    /\ Analysed[1].style_features = Analysed[2].style_features
    /\ FracLT(Frac(3, 10), AbsDiff(Analysed[1].authenticity_score,
                                   Analysed[2].authenticity_score))
    /\ Analysed[1].version_id.seq = 2
    /\ Returned.drift_points[1].from_version.seq = 2

\* C14: analyze_version_history on a document with n >= 1 versions reports
\* the trend of the first and last scores: stable and 0 for n = 1; for
\* n >= 2 increasing when the last is strictly greater, decreasing
\* otherwise, with the absolute difference as magnitude.
C14_TrendOfFirstAndLast ==
    (lastOp.op = "analyze_version_history" /\ Len(Analysed) >= 1) =>
        LET n == Len(Analysed)
            first == Analysed[1].authenticity_score
            last == Analysed[n].authenticity_score
        IN  /\ "authenticity_trend" \in DOMAIN Returned
            /\ Returned.authenticity_trend.direction =
                   IF n = 1 THEN "stable"
                   ELSE IF FracLT(first, last) THEN "increasing"
                   ELSE "decreasing"
            /\ Returned.authenticity_trend.magnitude =
                   IF n = 1 THEN Zero ELSE AbsDiff(first, last)

---------------------------------------------------------------------------
(* Properties of the read operations (SpecReads)                           *)

ReadOps ==
    {"get_versions", "list_documents", "detect_style_drift",
     "analyze_version_history", "analyze"}

\* what a read answers for an id that is no key: no version, too few
\* versions, or an error
AnswerForUnknown(op, ret) ==
    CASE op = "get_versions" -> ret.versions = <<>>
      [] op = "detect_style_drift" -> ret = Insufficient
      [] op = "analyze_version_history" -> "error" \in DOMAIN ret
      [] OTHER -> TRUE

\* C21: get_versions, list_documents, detect_style_drift,
\* analyze_version_history and the stateless analyze change neither the
\* mapping nor the file, for a known and for an unknown id; a read of an
\* unknown id answers empty / insufficient / error and creates no entry,
\* so list_documents does not list the id afterwards.
C21_ReadsLeaveStoreUnchanged ==
    [][lastOp'.op \in ReadOps =>
          /\ documents' = documents
          /\ disk' = disk
          /\ \A d \in DocIds :
                (lastOp'.doc = d /\ ~contains(documents, d)) =>
                    /\ AnswerForUnknown(lastOp'.op, lastOp'.ret[1])
                    /\ d \notin ListedIds(documents')
                    /\ list_documents(documents') = list_documents(documents)
       ]_vars

\* drift was asked for an id that is no key while the other document is
\* stored and saved
C21_Witness ==
    /\ lastOp.op = "detect_style_drift"
    /\ ~contains(documents, lastOp.doc)
    /\ ListedIds(documents) = DocIds \ {lastOp.doc}
    /\ disk = _save_history(documents)

====
